---- MODULE Spec2Model ----
(***************************************************************************)
(* usbd-gscan: the GsCan USB class (src/src/lib.rs) and the wire format    *)
(* helpers it uses (src/src/host.rs).                                      *)
(*                                                                         *)
(* Program state: interface_fd, out_queue, out_frame, in_frame, and        *)
(* panicked (a Rust panic aborted the class: unwrap(), assert_eq!,         *)
(* panic!, or an out-of-range array index).                                *)
(* Observation state: what each handler did to its collaborators (the IN   *)
(* endpoint, the control transfer, the Device capability).                 *)
(***************************************************************************)
EXTENDS Integers, Sequences, FiniteSets, TLC

VARIABLES
    interface_fd,   \* [bool; MAX_INTF]
    out_queue,      \* spsc::Queue<host::Frame, 64>, as a sequence, head first
    out_frame,      \* Option<host::Frame>: <<>> is None, <<f>> is Some(f)
    in_frame,       \* Option<host::Frame>
    panicked,       \* a handler panicked; nothing runs afterwards
    hostLog,        \* packets written to the IN endpoint: [id |-> can_id, half |-> 1 or 2]
    received,       \* can_id of the frames handed to Device::receive, in order
    submitted,      \* can_id of the frames that reached lines 92-108 / 269-285
    dropped,        \* can_id of the frames refused by a full out_queue
    nextId,         \* can_id of the next frame entering the class
    wasReset,       \* UsbClass::reset has run
    xfer,           \* outcome of the control transfer the last handler saw
    devCalls,       \* Device calls made by the last handler
    lastOp          \* the last handler and its inputs

vars == <<interface_fd, out_queue, out_frame, in_frame, panicked, hostLog,
          received, submitted, dropped, nextId, wasReset, xfer, devCalls, lastOp>>

transport == <<interface_fd, out_queue, out_frame, in_frame>>

----------------------------------------------------------------------------
(* Bounds of the model *)

\* frames that enter the class (transmit() calls plus first OUT packets)
MaxFrames == 2
\* the const generic N of out_queue (64 in the program), scaled down
QueueN == 2

(* Program constants *)
REQ_HOST_FORMAT == 0
REQ_BIT_TIMING == 1
REQ_MODE == 2
REQ_BIT_TIMING_CONST == 4
REQ_DEVICE_CONFIG == 5
REQ_BIT_TIMING_DATA == 10
REQ_BIT_TIMING_CONST_EXT == 11
REQ_GET_STATE == 14
REQ_IDENTIFY == 7
MAX_INTF == 3
\* a u32 is <<high 16 bits, low 16 bits>>: 0xFFFFFFFF exceeds TLC's integers
U32(hi, lo) == <<hi, lo>>
\* u32::MAX, 0xFFFFFFFF
U32_MAX == U32(65535, 65535)
\* 0x0000beef and 0xdeadbeef
LE_MAGIC == U32(0, 48879)
BE_MARKER == U32(57005, 48879)
FEATURE_FD == 256
MODE_RESET == 0
MODE_START == 1
READ_EP_INDEX == 2
PACKET == 64
FRAME_BYTES == 80

----------------------------------------------------------------------------
(* host.rs *)

\* the lengths of DLC 12 and DLC 13 are exchanged
fd_dlc_to_len_swapped(dlc) ==
    IF dlc \in 0..8 THEN <<dlc>>
    ELSE IF dlc = 9 THEN <<12>>
    ELSE IF dlc = 10 THEN <<16>>
    ELSE IF dlc = 11 THEN <<20>>
    ELSE IF dlc = 12 THEN <<32>>
    ELSE IF dlc = 13 THEN <<24>>
    ELSE IF dlc = 14 THEN <<48>>
    ELSE IF dlc = 15 THEN <<64>>
    ELSE <<>>

\* fd_dlc_to_len: <<>> is None
fd_dlc_to_len(dlc) ==
    IF dlc \in 0..8 THEN <<dlc>>
    ELSE IF dlc = 9 THEN <<12>>
    ELSE IF dlc = 10 THEN <<16>>
    ELSE IF dlc = 11 THEN <<20>>
    ELSE IF dlc = 12 THEN <<24>>
    ELSE IF dlc = 13 THEN <<32>>
    ELSE IF dlc = 14 THEN <<48>>
    ELSE IF dlc = 15 THEN <<64>>
    ELSE <<>>

\* fd_len_to_dlc: <<d>> is Some(d); "panic" is the panic! of the last arm
fd_len_to_dlc(len) ==
    IF len \in 0..8 THEN <<len>>
    ELSE IF len = 12 THEN <<9>>
    ELSE IF len = 16 THEN <<10>>
    ELSE IF len = 20 THEN <<11>>
    ELSE IF len = 24 THEN <<12>>
    ELSE IF len = 32 THEN <<13>>
    ELSE IF len = 48 THEN <<14>>
    ELSE IF len = 64 THEN <<15>>
    ELSE "panic"

\* Mode::try_from: <<>> is Err(())
ModeTryFrom(value) ==
    IF value = MODE_RESET THEN <<"Reset">>
    ELSE IF value = MODE_START THEN <<"Start">>
    ELSE <<>>

\* a test that any feature bit is set, instead of the FD bit
IntersectsAny(flags) == flags # 0

\* Feature::intersects(Feature::FD) on the raw u32
IntersectsFD(flags) == (flags \div FEATURE_FD) % 2 = 1

\* Frame::new_zeroed
ZeroFrame ==
    [echo_id |-> U32(0, 0), can_id |-> 0, can_dlc |-> 0, interface |-> 0,
     fd |-> FALSE, tail |-> 0]

----------------------------------------------------------------------------
(* The inputs the environment draws from *)

Bool == {TRUE, FALSE}
\* transmit() arguments: the interface, FrameFlag::FD of the flags, and the
\* payload length of the frame (8 has a DLC, 9 has none)
TxArgs ==
    {[interface |-> 0, fd |-> FALSE, len |-> 8],
     [interface |-> 1, fd |-> TRUE, len |-> 8],
     [interface |-> 0, fd |-> FALSE, len |-> 9]}
\* bulk OUT packets: the header fields are what a read at offset 0 stores,
\* tail is what a read at offset 64 stores; interface 3 is outside the
\* interface_fd array
Packets ==
    {[len |-> PACKET, echo_id |-> U32(0, 7), interface |-> 0, fd |-> FALSE, tail |-> 1],
     [len |-> PACKET, echo_id |-> U32(0, 7), interface |-> 1, fd |-> TRUE, tail |-> 1],
     [len |-> 12, echo_id |-> U32(0, 7), interface |-> 1, fd |-> TRUE, tail |-> 1],
     [len |-> PACKET, echo_id |-> U32(0, 7), interface |-> 3, fd |-> FALSE, tail |-> 1]}
EndpointIndexes == {1, READ_EP_INDEX}
\* control-in requests: request type, bRequest, wValue
InRequests ==
    [rt : {"Vendor"},
     request : {REQ_BIT_TIMING_CONST, REQ_DEVICE_CONFIG, REQ_BIT_TIMING_CONST_EXT,
                REQ_GET_STATE, REQ_IDENTIFY},
     value : {1}]
    \cup {[rt |-> "Standard", request |-> 0, value |-> 0]}
\* control-out payloads: len bytes, w0 and w1 the first two u32 of the data
NoData == [len |-> 0, w0 |-> 0, w1 |-> 0]
HostFormatData ==
    {[len |-> 4, w0 |-> LE_MAGIC, w1 |-> 0], [len |-> 4, w0 |-> BE_MARKER, w1 |-> 0],
     [len |-> 2, w0 |-> LE_MAGIC, w1 |-> 0]}
ModeData(mode, flags) == [len |-> 8, w0 |-> mode, w1 |-> flags]
TimingData == {[len |-> 20, w0 |-> 0, w1 |-> 0]}
\* control-out requests: request type, bRequest, wValue (259 truncates to
\* interface 3), data
OutRequests ==
    [rt : {"Vendor"}, request : {REQ_HOST_FORMAT}, value : {0}, data : HostFormatData]
    \cup [rt : {"Vendor"}, request : {REQ_MODE}, value : {0},
          data : {ModeData(MODE_RESET, 1), ModeData(MODE_RESET, FEATURE_FD),
                  ModeData(MODE_START, 1), ModeData(MODE_START, FEATURE_FD + 1),
                  ModeData(2, FEATURE_FD)}]
    \cup [rt : {"Vendor"}, request : {REQ_MODE}, value : {1, 259},
          data : {ModeData(MODE_START, FEATURE_FD)}]
    \cup [rt : {"Vendor"}, request : {REQ_BIT_TIMING, REQ_BIT_TIMING_DATA},
          value : {1}, data : TimingData]
    \cup [rt : {"Vendor"}, request : {REQ_IDENTIFY}, value : {0}, data : {NoData}]
    \cup {[rt |-> "Standard", request |-> 0, value |-> 0, data |-> NoData]}

----------------------------------------------------------------------------
(* lib.rs *)

\* a queue that holds as many items as its type parameter says
CapacityN == QueueN

\* heapless spsc::Queue<T, N> holds N - 1 items
Capacity == QueueN - 1

Init ==
    /\ interface_fd = [i \in 0..(MAX_INTF - 1) |-> FALSE]
    /\ out_queue = <<>>
    /\ out_frame = <<>>
    /\ in_frame = <<>>
    /\ panicked = FALSE
    /\ hostLog = <<>>
    /\ received = <<>>
    /\ submitted = <<>>
    /\ dropped = {}
    /\ nextId = 1
    /\ wasReset = FALSE
    /\ xfer = "none"
    /\ devCalls = <<>>
    /\ lastOp = [op |-> "new"]

\* a handler panics: the state it wrote before the panic stays written
Panic == panicked' = TRUE

\* a queue that makes room by overwriting its oldest entry
EnqueueOverwrites(frame) ==
    /\ out_queue' = IF Len(out_queue) < Capacity
                    THEN Append(out_queue, frame)
                    ELSE Append(Tail(out_queue), frame)
    /\ dropped' = dropped

\* out_queue.enqueue(frame): Err when the queue is full
Enqueue(frame) ==
    IF Len(out_queue) < Capacity
    THEN /\ out_queue' = Append(out_queue, frame)
         /\ dropped' = dropped
    ELSE /\ out_queue' = out_queue
         /\ dropped' = dropped \cup {frame.can_id}

\* the first half is written without looking at out_frame
SendOrQueueUnguarded(frame, ok) ==
    /\ submitted' = Append(submitted, frame.can_id)
    /\ IF ok
       THEN /\ hostLog' = Append(hostLog, [id |-> frame.can_id, half |-> 1])
            /\ out_frame' = <<frame>>
            /\ UNCHANGED <<out_queue, dropped>>
       ELSE /\ Enqueue(frame)
            /\ UNCHANGED <<hostLog, out_frame>>

\* lines 92-108 of transmit and the identical lines 269-285 of endpoint_out;
\* ok is the outcome of write_endpoint.write
SendOrQueue(frame, ok) ==
    /\ submitted' = Append(submitted, frame.can_id)
    /\ IF out_frame = <<>>
       THEN IF ok
            THEN /\ hostLog' = Append(hostLog, [id |-> frame.can_id, half |-> 1])
                 /\ out_frame' = <<frame>>
                 /\ UNCHANGED <<out_queue, dropped>>
            ELSE /\ Enqueue(frame)
                 /\ UNCHANGED <<hostLog, out_frame>>
       ELSE /\ Enqueue(frame)
            /\ UNCHANGED <<hostLog, out_frame>>

\* GsCan::transmit
Transmit(interface, fd, len, ok) ==
    /\ ~panicked
    /\ nextId <= MaxFrames
    /\ lastOp' = [op |-> "transmit", interface |-> interface, fd |-> fd,
                  len |-> len]
    /\ xfer' = "none"
    /\ devCalls' = <<>>
    /\ nextId' = nextId + 1
    /\ UNCHANGED <<interface_fd, in_frame, received, wasReset>>
    /\ IF fd_len_to_dlc(len) = "panic"
       THEN /\ Panic
            /\ UNCHANGED <<out_queue, out_frame, hostLog, submitted, dropped>>
       ELSE /\ UNCHANGED panicked
            /\ SendOrQueue([ZeroFrame EXCEPT !.can_id = nextId,
                                             !.can_dlc = fd_len_to_dlc(len)[1],
                                             !.echo_id = U32_MAX,
                                             !.interface = interface % 256,
                                             !.fd = fd], ok)

\* the head is peeked and written but never dequeued
DrainPeekOnly(ok) ==
    IF out_frame = <<>>
    THEN IF out_queue # <<>> /\ ok
         THEN /\ hostLog' = Append(hostLog, [id |-> Head(out_queue).can_id, half |-> 1])
              /\ out_frame' = <<Head(out_queue)>>
              /\ out_queue' = out_queue
         ELSE UNCHANGED <<hostLog, out_frame, out_queue>>
    ELSE IF ok
         THEN /\ hostLog' = Append(hostLog, [id |-> out_frame[1].can_id, half |-> 2])
              /\ out_frame' = <<>>
              /\ out_queue' = out_queue
         ELSE UNCHANGED <<hostLog, out_frame, out_queue>>

\* take() in place of take_if(): the half-sent frame leaves the slot even
\* when the write of its trailing bytes fails
DrainTakes(ok) ==
    IF out_frame = <<>>
    THEN IF out_queue # <<>> /\ ok
         THEN /\ hostLog' = Append(hostLog, [id |-> Head(out_queue).can_id, half |-> 1])
              /\ out_frame' = <<Head(out_queue)>>
              /\ out_queue' = Tail(out_queue)
         ELSE UNCHANGED <<hostLog, out_frame, out_queue>>
    ELSE IF ok
         THEN /\ hostLog' = Append(hostLog, [id |-> out_frame[1].can_id, half |-> 2])
              /\ out_frame' = <<>>
              /\ out_queue' = out_queue
         ELSE /\ out_frame' = <<>>
              /\ UNCHANGED <<hostLog, out_queue>>

\* poll, lines 216-228
Drain(ok) ==
    IF out_frame = <<>>
    THEN IF out_queue # <<>> /\ ok
         THEN /\ hostLog' = Append(hostLog, [id |-> Head(out_queue).can_id, half |-> 1])
              /\ out_frame' = <<Head(out_queue)>>
              /\ out_queue' = Tail(out_queue)
         ELSE UNCHANGED <<hostLog, out_frame, out_queue>>
    ELSE IF ok
         THEN /\ hostLog' = Append(hostLog, [id |-> out_frame[1].can_id, half |-> 2])
              /\ out_frame' = <<>>
              /\ out_queue' = out_queue
         ELSE UNCHANGED <<hostLog, out_frame, out_queue>>

\* UsbClass::poll
Poll(ok) ==
    /\ ~panicked
    /\ lastOp' = [op |-> "poll", ok |-> ok]
    /\ xfer' = "none"
    /\ devCalls' = <<>>
    /\ Drain(ok)
    /\ UNCHANGED <<interface_fd, in_frame, panicked, received, submitted,
                   dropped, nextId, wasReset>>

\* UsbClass::endpoint_in_complete
EndpointInComplete(ok) ==
    /\ ~panicked
    /\ lastOp' = [op |-> "endpoint_in_complete", ok |-> ok]
    /\ xfer' = "none"
    /\ devCalls' = <<>>
    /\ Drain(ok)
    /\ UNCHANGED <<interface_fd, in_frame, panicked, received, submitted,
                   dropped, nextId, wasReset>>

\* the host's echo_id is left in the frame
DeliverUnstamped(frame, ok) ==
    /\ received' = Append(received, frame.can_id)
    /\ \E taken \in Bool :
           devCalls' = <<[op |-> "receive", interface |-> frame.interface,
                          frame |-> frame, taken |-> taken]>>
    /\ SendOrQueue(frame, ok)

\* endpoint_out, lines 265-285: stamp, deliver, echo.  Device::receive returns
\* nothing (line 325): whether the device could take the frame, recorded in
\* the call's taken field, is the device's own affair and the handler goes on
\* to the echo in both cases
Deliver(frame, ok) ==
    LET stamped == [frame EXCEPT !.echo_id = U32(0, 0)] IN
    /\ received' = Append(received, stamped.can_id)
    /\ \E taken \in Bool :
           devCalls' = <<[op |-> "receive", interface |-> stamped.interface,
                          frame |-> stamped, taken |-> taken]>>
    /\ SendOrQueue(stamped, ok)

\* endpoint_out, the None arm of the match (lines 242-254): read 64 bytes into
\* a zeroed frame, keep it when the interface is in FD mode
FirstPacket(pkt, ok) ==
    LET frame == [ZeroFrame EXCEPT !.echo_id = pkt.echo_id,
                                   !.can_id = nextId,
                                   !.interface = pkt.interface,
                                   !.fd = pkt.fd] IN
    /\ nextId <= MaxFrames
    /\ nextId' = nextId + 1
    /\ IF frame.interface >= MAX_INTF
       THEN /\ Panic
            /\ devCalls' = <<>>
            /\ UNCHANGED <<out_queue, out_frame, in_frame, hostLog,
                           received, submitted, dropped>>
       ELSE IF interface_fd[frame.interface]
       THEN /\ in_frame' = <<frame>>
            /\ devCalls' = <<>>
            /\ UNCHANGED <<out_queue, out_frame, panicked, hostLog,
                           received, submitted, dropped>>
       ELSE /\ Deliver(frame, ok)
            /\ UNCHANGED <<in_frame, panicked>>

\* the stored frame is completed but the slot is not cleared
SecondPacketKeepsSlot(pkt, ok) ==
    /\ UNCHANGED nextId
    /\ IF pkt.len > FRAME_BYTES - PACKET
       THEN /\ Panic
            /\ devCalls' = <<>>
            /\ UNCHANGED <<out_queue, out_frame, in_frame, hostLog,
                           received, submitted, dropped>>
       ELSE /\ in_frame' = in_frame
            /\ Deliver([in_frame[1] EXCEPT !.tail = pkt.tail], ok)
            /\ UNCHANGED panicked

\* endpoint_out, the Some arm of the match (lines 255-262): read the rest into
\* the stored frame; the read fails, and unwrap() panics, when the packet is
\* longer than the rest of the frame
SecondPacket(pkt, ok) ==
    /\ UNCHANGED nextId
    /\ IF pkt.len > FRAME_BYTES - PACKET
       THEN /\ Panic
            /\ devCalls' = <<>>
            /\ UNCHANGED <<out_queue, out_frame, in_frame, hostLog,
                           received, submitted, dropped>>
       ELSE /\ in_frame' = <<>>
            /\ Deliver([in_frame[1] EXCEPT !.tail = pkt.tail], ok)
            /\ UNCHANGED panicked

\* the endpoint address is not compared with the read endpoint's
EndpointOutAnyAddr(addr, pkt, ok) ==
    /\ ~panicked
    /\ lastOp' = [op |-> "endpoint_out", addr |-> addr, len |-> pkt.len,
                  interface |-> pkt.interface]
    /\ xfer' = "none"
    /\ UNCHANGED <<interface_fd, wasReset>>
    /\ IF in_frame = <<>>
       THEN FirstPacket(pkt, ok)
       ELSE SecondPacket(pkt, ok)

\* UsbClass::endpoint_out
EndpointOut(addr, pkt, ok) ==
    /\ ~panicked
    /\ lastOp' = [op |-> "endpoint_out", addr |-> addr, len |-> pkt.len,
                  interface |-> pkt.interface]
    /\ xfer' = "none"
    /\ UNCHANGED <<interface_fd, wasReset>>
    /\ IF addr # READ_EP_INDEX
       THEN /\ devCalls' = <<>>
            /\ UNCHANGED <<out_queue, out_frame, in_frame, panicked, hostLog,
                           received, submitted, dropped, nextId>>
       ELSE IF in_frame = <<>>
       THEN FirstPacket(pkt, ok)
       ELSE SecondPacket(pkt, ok)

\* a reset that forgets the per-interface FD flags
ResetKeepsFd ==
    /\ ~panicked
    /\ lastOp' = [op |-> "reset"]
    /\ xfer' = "none"
    /\ devCalls' = <<>>
    /\ interface_fd' = interface_fd
    /\ out_queue' = <<>>
    /\ out_frame' = <<>>
    /\ in_frame' = <<>>
    /\ wasReset' = TRUE
    /\ UNCHANGED <<panicked, hostLog, received, submitted, dropped, nextId>>

\* UsbClass::reset
Reset ==
    /\ ~panicked
    /\ lastOp' = [op |-> "reset"]
    /\ xfer' = "none"
    /\ devCalls' = <<>>
    /\ interface_fd' = [i \in 0..(MAX_INTF - 1) |-> FALSE]
    /\ out_queue' = <<>>
    /\ out_frame' = <<>>
    /\ in_frame' = <<>>
    /\ wasReset' = TRUE
    /\ UNCHANGED <<panicked, hostLog, received, submitted, dropped, nextId>>

\* UsbClass::control_in
ControlIn(rt, request, value) ==
    /\ ~panicked
    /\ lastOp' = [op |-> "control_in", rt |-> rt, request |-> request]
    /\ UNCHANGED <<interface_fd, out_queue, out_frame, in_frame, panicked,
                   hostLog, received, submitted, dropped, nextId, wasReset>>
    /\ IF rt # "Vendor"
       THEN xfer' = "none" /\ devCalls' = <<>>
       ELSE IF request = REQ_BIT_TIMING_CONST
       THEN xfer' = "accepted" /\ devCalls' = <<[op |-> "bit_timing"]>>
       ELSE IF request = REQ_DEVICE_CONFIG
       THEN xfer' = "accepted" /\ devCalls' = <<[op |-> "config"]>>
       ELSE IF request = REQ_BIT_TIMING_CONST_EXT
       THEN xfer' = "accepted" /\ devCalls' = <<[op |-> "bit_timing_ext"]>>
       ELSE IF request = REQ_GET_STATE
       THEN /\ xfer' = "accepted"
            /\ devCalls' = <<[op |-> "state", interface |-> value % 256]>>
       ELSE xfer' = "none" /\ devCalls' = <<>>

\* the byte order word is compared with the wrong constant
HostFormatWrongMagic(data) ==
    /\ devCalls' = <<>>
    /\ UNCHANGED interface_fd
    /\ IF data.len # 4
       THEN xfer' = "rejected" /\ UNCHANGED panicked
       ELSE IF data.w0 # BE_MARKER
       THEN xfer' = "none" /\ Panic
       ELSE xfer' = "accepted" /\ UNCHANGED panicked

\* control_out, REQ_HOST_FORMAT arm
HostFormat(data) ==
    /\ devCalls' = <<>>
    /\ UNCHANGED interface_fd
    /\ IF data.len # 4
       THEN xfer' = "rejected" /\ UNCHANGED panicked
       ELSE IF data.w0 # LE_MAGIC
       THEN xfer' = "none" /\ Panic
       ELSE xfer' = "accepted" /\ UNCHANGED panicked

\* control_out, REQ_BIT_TIMING and REQ_BIT_TIMING_DATA arms
BitTiming(call, value, data) ==
    /\ UNCHANGED interface_fd
    /\ IF data.len # 20
       THEN xfer' = "none" /\ devCalls' = <<>> /\ Panic
       ELSE /\ devCalls' = <<[op |-> call, interface |-> value % 256]>>
            /\ xfer' = "accepted"
            /\ UNCHANGED panicked

\* control_out, REQ_MODE arm
SetMode(value, data) ==
    LET interface == value % 256
        mode == ModeTryFrom(data.w0)
    IN
    IF data.len # 8 \/ interface >= MAX_INTF
    THEN /\ xfer' = "none" /\ devCalls' = <<>> /\ Panic
         /\ UNCHANGED interface_fd
    ELSE /\ interface_fd' = [interface_fd EXCEPT ![interface] = IntersectsFD(data.w1)]
         /\ IF mode = <<>>
            THEN xfer' = "none" /\ devCalls' = <<>> /\ Panic
            ELSE /\ devCalls' =
                      IF mode[1] = "Reset"
                      THEN <<[op |-> "reset", interface |-> interface]>>
                      ELSE <<[op |-> "start", interface |-> interface,
                              flags |-> data.w1]>>
                 /\ xfer' = "accepted"
                 /\ UNCHANGED panicked

\* an unrecognized request is left unanswered, as control_in leaves it
ControlOutIgnoresUnknown(rt, request, value, data) ==
    /\ ~panicked
    /\ lastOp' = [op |-> "control_out", rt |-> rt, request |-> request,
                  value |-> value, data |-> data]
    /\ UNCHANGED <<out_queue, out_frame, in_frame, hostLog, received,
                   submitted, dropped, nextId, wasReset>>
    /\ IF rt # "Vendor"
       THEN /\ xfer' = "none" /\ devCalls' = <<>>
            /\ UNCHANGED <<interface_fd, panicked>>
       ELSE IF request = REQ_HOST_FORMAT THEN HostFormat(data)
       ELSE IF request = REQ_BIT_TIMING
       THEN BitTiming("configure_bit_timing", value, data)
       ELSE IF request = REQ_MODE THEN SetMode(value, data)
       ELSE IF request = REQ_BIT_TIMING_DATA
       THEN BitTiming("configure_bit_timing_data", value, data)
       ELSE /\ xfer' = "none" /\ devCalls' = <<>>
            /\ UNCHANGED <<interface_fd, panicked>>

\* UsbClass::control_out
ControlOut(rt, request, value, data) ==
    /\ ~panicked
    /\ lastOp' = [op |-> "control_out", rt |-> rt, request |-> request,
                  value |-> value, data |-> data]
    /\ UNCHANGED <<out_queue, out_frame, in_frame, hostLog, received,
                   submitted, dropped, nextId, wasReset>>
    /\ IF rt # "Vendor"
       THEN /\ xfer' = "none" /\ devCalls' = <<>>
            /\ UNCHANGED <<interface_fd, panicked>>
       ELSE IF request = REQ_HOST_FORMAT THEN HostFormat(data)
       ELSE IF request = REQ_BIT_TIMING
       THEN BitTiming("configure_bit_timing", value, data)
       ELSE IF request = REQ_MODE THEN SetMode(value, data)
       ELSE IF request = REQ_BIT_TIMING_DATA
       THEN BitTiming("configure_bit_timing_data", value, data)
       ELSE /\ xfer' = "rejected" /\ devCalls' = <<>>
            /\ UNCHANGED <<interface_fd, panicked>>

Next ==
    \/ \E a \in TxArgs, ok \in Bool : Transmit(a.interface, a.fd, a.len, ok)
    \/ \E ok \in Bool : Poll(ok)
    \/ \E ok \in Bool : EndpointInComplete(ok)
    \/ \E addr \in EndpointIndexes, pkt \in Packets, ok \in Bool :
          EndpointOut(addr, pkt, ok)
    \/ Reset
    \/ \E r \in InRequests : ControlIn(r.rt, r.request, r.value)
    \/ \E r \in OutRequests : ControlOut(r.rt, r.request, r.value, r.data)

Spec == Init /\ [][Next]_vars

----------------------------------------------------------------------------
(* What the host and the pipeline have seen, read off the observation state *)

\* the ids of the frames that entered the outbound pipeline
SubmittedIds == {submitted[k] : k \in 1..Len(submitted)}
\* the place of a frame in the order of entry into the outbound pipeline
Pos(id) == CHOOSE k \in 1..Len(submitted) : submitted[k] = id
\* the writes of one half of one frame to the IN endpoint
Writes(id, half) == {k \in 1..Len(hostLog) : hostLog[k] = [id |-> id, half |-> half]}
\* the slots of out_queue that hold the frame
Queued(id) == {k \in 1..Len(out_queue) : out_queue[k].can_id = id}
\* the frame is the half-sent frame
HalfSent(id) == out_frame # <<>> /\ out_frame[1].can_id = id
\* the number of places (queue slots, half-sent slot) that hold the frame
Places(id) == Cardinality(Queued(id)) + (IF HalfSent(id) THEN 1 ELSE 0)
\* no protocol reset and no queue overflow so far
Undisturbed == ~wasReset /\ dropped = {}

----------------------------------------------------------------------------
(* C1 *)

\* C1 (as claimed): with no protocol reset and no queue overflow, the first
\* halves written to the IN endpoint appear in the order in which their frames
\* entered the outbound pipeline: when the first half of a frame is written,
\* the first half of every frame that entered before it was written earlier.
C1_FirstHalvesInSubmitOrder ==
    Undisturbed =>
        \A j \in 1..Len(hostLog) :
            hostLog[j].half = 1 =>
                \A id \in SubmittedIds :
                    Pos(id) < Pos(hostLog[j].id) =>
                        \E i \in 1..(j - 1) : hostLog[i] = [id |-> id, half |-> 1]

----------------------------------------------------------------------------
(* C2 *)

\* the frame whose first half is the most recent first-half write of a log
LastFirstHalf(log) ==
    LET firsts == {k \in 1..Len(log) : log[k].half = 1}
    IN  IF firsts = {} THEN 0
        ELSE log[CHOOSE k \in firsts : \A m \in firsts : m <= k].id

\* C2: while a frame occupies the half-sent slot, the only packet a handler
\* writes to the IN endpoint is that frame's trailing bytes (no first half of
\* any frame); and every trailing-bytes write belongs to the frame whose
\* first half was the most recent first-half write.
C2_HalfSentExcludesOtherWrites ==
    [][/\ out_frame # <<>> =>
             \/ hostLog' = hostLog
             \/ hostLog' = Append(hostLog, [id |-> out_frame[1].can_id, half |-> 2])
       /\ (hostLog' # hostLog /\ hostLog'[Len(hostLog')].half = 2) =>
             /\ Len(hostLog') = Len(hostLog) + 1
             /\ hostLog'[Len(hostLog')].id = LastFirstHalf(hostLog)]_vars

\* a frame was submitted while another one was half sent and had to wait in
\* the queue; the drain hook then wrote the trailing bytes of the half-sent
\* frame and, in a later step, the first half of the waiting frame
C2_Witness ==
    /\ out_frame # <<>>
    /\ Len(hostLog) = 3
    /\ hostLog[2] = [id |-> hostLog[1].id, half |-> 2]
    /\ hostLog[3] = [id |-> out_frame[1].can_id, half |-> 1]
    /\ Pos(hostLog[1].id) < Pos(hostLog[3].id)
    /\ lastOp.op \in {"poll", "endpoint_in_complete"}

----------------------------------------------------------------------------
(* C3 *)

\* C3: with no protocol reset and no queue overflow, every frame that entered
\* the outbound pipeline is held in exactly one place until its trailing
\* bytes are written and in none afterwards, its first half is written
\* exactly once when it has left the queue and not before, and its trailing
\* bytes are written at most once.
C3_OnePlaceOneWrite ==
    Undisturbed =>
        \A id \in SubmittedIds :
            /\ Cardinality({k \in 1..Len(submitted) : submitted[k] = id}) = 1
            /\ Places(id) = (IF Writes(id, 2) # {} THEN 0 ELSE 1)
            /\ Cardinality(Writes(id, 1)) = (IF Queued(id) # {} THEN 0 ELSE 1)
            /\ Cardinality(Writes(id, 2)) <= 1

\* two frames entered: one is fully sent, the other is half sent
C3_Witness ==
    /\ Undisturbed
    /\ Len(submitted) = 2
    /\ \E id \in SubmittedIds : Writes(id, 2) # {}
    /\ \E id \in SubmittedIds : HalfSent(id)

----------------------------------------------------------------------------
(* C4 *)

\* a step in which a frame reached the enqueue call of lines 98/104 or
\* 275/281: it entered the pipeline and no first half was written for it
EnqueueStep ==
    /\ submitted' # submitted
    /\ hostLog' = hostLog

----------------------------------------------------------------------------
(* C5 *)

\* the step is an endpoint_out call for the bulk OUT endpoint
OutPacketStep == lastOp'.op = "endpoint_out" /\ lastOp'.addr = READ_EP_INDEX

\* the step handed exactly one frame, not handed before, to Device::receive
DeliversOnce(id, interface) ==
    /\ id \notin {received[k] : k \in 1..Len(received)}
    /\ received' = Append(received, id)
    /\ Len(devCalls') = 1
    /\ devCalls'[1].op = "receive"
    /\ devCalls'[1].interface = interface
    /\ devCalls'[1].frame.can_id = id

\* C5: with no assembly in progress, a 64-byte OUT packet for an interface
\* whose FD flag is unset is delivered in that step, once, and leaves no
\* assembly in progress; for an interface whose FD flag is set it is stored
\* with no delivery and no echo; with an assembly in progress, the OUT packet
\* holding the rest of the frame completes the stored frame, clears the slot
\* and is delivered once.
C5_ReceiveAssembly ==
    [][OutPacketStep =>
        /\ (/\ in_frame = <<>>
            /\ lastOp'.len = PACKET
            /\ lastOp'.interface < MAX_INTF
            /\ ~interface_fd[lastOp'.interface]) =>
               /\ DeliversOnce(nextId, lastOp'.interface)
               /\ in_frame' = <<>>
               /\ ~panicked'
        /\ (/\ in_frame = <<>>
            /\ lastOp'.len = PACKET
            /\ lastOp'.interface < MAX_INTF
            /\ interface_fd[lastOp'.interface]) =>
               /\ Len(in_frame') = 1
               /\ in_frame'[1].can_id = nextId
               /\ in_frame'[1].interface = lastOp'.interface
               /\ received' = received
               /\ devCalls' = <<>>
               /\ UNCHANGED <<submitted, hostLog, out_queue, out_frame>>
               /\ ~panicked'
        /\ (/\ in_frame # <<>>
            /\ lastOp'.len <= FRAME_BYTES - PACKET) =>
               /\ DeliversOnce(in_frame[1].can_id, in_frame[1].interface)
               /\ devCalls'[1].frame.tail # 0
               /\ [devCalls'[1].frame EXCEPT !.tail = 0,
                                             !.echo_id = in_frame[1].echo_id]
                      = in_frame[1]
               /\ in_frame' = <<>>
               /\ ~panicked']_vars

\* the second OUT packet of a frame for an FD interface has just been
\* consumed: the assembled frame was delivered and the slot is empty
C5_Witness ==
    /\ lastOp.op = "endpoint_out"
    /\ Len(devCalls) = 1
    /\ devCalls[1].op = "receive"
    /\ devCalls[1].frame.tail # 0
    /\ interface_fd[devCalls[1].interface]
    /\ in_frame = <<>>
    /\ Len(received) = 1

----------------------------------------------------------------------------
(* C6 *)

\* C6: a protocol reset leaves every FD flag false and the queue, the
\* half-sent slot and the receive-assembly slot empty; and a 64-byte OUT
\* packet that directly follows it, for any interface of the array, is
\* delivered in that step and leaves no assembly in progress.
C6_ResetClearsState ==
    [][/\ lastOp'.op = "reset" =>
             /\ \A i \in 0..(MAX_INTF - 1) : ~interface_fd'[i]
             /\ out_queue' = <<>>
             /\ out_frame' = <<>>
             /\ in_frame' = <<>>
             /\ ~panicked'
       /\ (/\ lastOp.op = "reset"
           /\ OutPacketStep
           /\ lastOp'.len = PACKET
           /\ lastOp'.interface < MAX_INTF) =>
             /\ DeliversOnce(nextId, lastOp'.interface)
             /\ in_frame' = <<>>
             /\ ~panicked']_vars

\* a reset has just run in a state where a submitted frame was still waiting
\* (never written, not dropped by a full queue) and a first OUT packet was
\* stored for an interface in FD mode (its frame entered the class and was
\* never delivered): the frames are gone and every flag is clear
C6_Witness ==
    /\ lastOp.op = "reset"
    /\ \E id \in SubmittedIds : Writes(id, 1) = {} /\ id \notin dropped
    /\ \E id \in 1..(nextId - 1) : id \notin SubmittedIds
    /\ out_queue = <<>>
    /\ in_frame = <<>>
    /\ \A i \in 0..(MAX_INTF - 1) : ~interface_fd[i]

----------------------------------------------------------------------------
(* C7, C8 *)

\* the step is a vendor control-out request with the given bRequest
VendorOutStep(request) ==
    /\ lastOp'.op = "control_out"
    /\ lastOp'.rt = "Vendor"
    /\ lastOp'.request = request

\* the last handler was SET_HOST_FORMAT with the little-endian magic
AfterGoodHostFormat ==
    /\ lastOp.op = "control_out"
    /\ lastOp.rt = "Vendor"
    /\ lastOp.request = REQ_HOST_FORMAT
    /\ lastOp.data.len = 4
    /\ lastOp.data.w0 = LE_MAGIC

\* C7: SET_HOST_FORMAT with the 4-byte little-endian magic is accepted, calls
\* nothing on the device, changes no transport state and does not panic; the
\* class then still takes a standard request.
C7_HostFormatAccepted ==
    [][/\ (/\ VendorOutStep(REQ_HOST_FORMAT)
           /\ lastOp'.data.len = 4
           /\ lastOp'.data.w0 = LE_MAGIC) =>
             /\ xfer' = "accepted"
             /\ devCalls' = <<>>
             /\ UNCHANGED transport
             /\ ~panicked'
       /\ AfterGoodHostFormat =>
             /\ ~panicked
             /\ ENABLED ControlOut("Standard", 0, 0, NoData)]_vars

\* the magic was accepted while frames were waiting and an interface was in
\* FD mode
C7_Witness ==
    /\ AfterGoodHostFormat
    /\ xfer = "accepted"
    /\ out_queue # <<>>
    /\ out_frame # <<>>
    /\ \E i \in 0..(MAX_INTF - 1) : interface_fd[i]

\* C8 (as claimed): SET_HOST_FORMAT with any other payload (wrong length or
\* wrong byte order word) is rejected, changes no transport state, and the
\* class keeps running.
C8_BadHostFormatRejected ==
    [][(/\ VendorOutStep(REQ_HOST_FORMAT)
        /\ (lastOp'.data.len # 4 \/ lastOp'.data.w0 # LE_MAGIC)) =>
             /\ xfer' = "rejected"
             /\ UNCHANGED transport
             /\ ~panicked']_vars

----------------------------------------------------------------------------
(* C9, C10 *)

\* the step is SET_MODE with a well-formed payload for an interface of the array
SetModeStep ==
    /\ VendorOutStep(REQ_MODE)
    /\ lastOp'.data.len = 8
    /\ lastOp'.value % 256 < MAX_INTF

\* C9 (as claimed): SET_MODE with a mode that is neither Reset nor Start is
\* rejected, calls neither start nor reset on the device, changes no
\* transport state (the interface's FD flag included), and the class keeps
\* running.
C9_BadModeRejected ==
    [][(SetModeStep /\ lastOp'.data.w0 \notin {MODE_RESET, MODE_START}) =>
             /\ xfer' = "rejected"
             /\ devCalls' = <<>>
             /\ UNCHANGED transport
             /\ ~panicked']_vars

\* C10 (as claimed): SET_MODE with mode = Reset for interface i calls
\* reset(i) on the device and leaves interface i's FD flag false whatever the
\* flags of the request; the other FD flags are unchanged.
C10_ModeResetClearsFd ==
    [][(SetModeStep /\ lastOp'.data.w0 = MODE_RESET) =>
             /\ devCalls' = <<[op |-> "reset", interface |-> lastOp'.value % 256]>>
             /\ interface_fd' = [interface_fd EXCEPT ![lastOp'.value % 256] = FALSE]]_vars

----------------------------------------------------------------------------
(* C11 *)

\* C11: SET_MODE with mode = Start for interface i sets interface i's FD
\* flag to bit 8 (Feature::FD) of the request's flags, calls start(i, flags)
\* on the device with the same flags and accepts the transfer; the other FD
\* flags, the queue and both partial-frame slots are unchanged.
C11_ModeStartRecordsFd ==
    [][(SetModeStep /\ lastOp'.data.w0 = MODE_START) =>
          LET i == lastOp'.value % 256
              flags == lastOp'.data.w1
          IN  /\ interface_fd' =
                    [interface_fd EXCEPT ![i] = ((flags \div 256) % 2 = 1)]
              /\ devCalls' = <<[op |-> "start", interface |-> i, flags |-> flags]>>
              /\ xfer' = "accepted"
              /\ UNCHANGED <<out_queue, out_frame, in_frame>>
              /\ ~panicked']_vars

\* interface 0 was started with flags that carry no FD bit while interface 1
\* was in FD mode, a frame was waiting and a first OUT packet was stored
C11_Witness ==
    /\ lastOp.op = "control_out"
    /\ lastOp.request = REQ_MODE
    /\ lastOp.data.w0 = MODE_START
    /\ lastOp.value = 0
    /\ lastOp.data.w1 = 1
    /\ xfer = "accepted"
    /\ ~interface_fd[0]
    /\ interface_fd[1]
    /\ out_frame # <<>>
    /\ in_frame # <<>>

----------------------------------------------------------------------------
(* C12 *)

\* an OUT packet completed a frame and the device could not take it
ReceiveFailedStep ==
    /\ OutPacketStep
    /\ Len(devCalls') = 1
    /\ devCalls'[1].op = "receive"
    /\ ~devCalls'[1].taken

\* C12: when the device fails to take a completed host frame, the frame is
\* dropped without an echo: nothing is written to the IN endpoint and the
\* frame enters neither the half-sent slot nor the queue.
C12_FailedReceiveNotEchoed ==
    [][ReceiveFailedStep =>
          /\ hostLog' = hostLog
          /\ out_frame' = out_frame
          /\ out_queue' = out_queue]_vars

----------------------------------------------------------------------------
(* C13 *)

\* the request codes control_in answers (lines 133-149)
KnownInRequests ==
    {REQ_BIT_TIMING_CONST, REQ_DEVICE_CONFIG, REQ_BIT_TIMING_CONST_EXT,
     REQ_GET_STATE}

\* the request codes control_out handles (lines 165-206)
KnownOutRequests ==
    {REQ_HOST_FORMAT, REQ_BIT_TIMING, REQ_MODE, REQ_BIT_TIMING_DATA}

\* C13: a vendor control-in request with an unrecognized request code is
\* neither accepted nor rejected and changes nothing; a vendor control-out
\* request with an unrecognized code is rejected, calls no device operation
\* and changes no transport state.
C13_UnknownRequests ==
    [][/\ (/\ lastOp'.op = "control_in"
           /\ lastOp'.rt = "Vendor"
           /\ lastOp'.request \notin KnownInRequests)
          => (/\ xfer' = "none"
              /\ devCalls' = <<>>
              /\ UNCHANGED transport
              /\ ~panicked')
       /\ (/\ lastOp'.op = "control_out"
           /\ lastOp'.rt = "Vendor"
           /\ lastOp'.request \notin KnownOutRequests)
          => (/\ xfer' = "rejected"
              /\ devCalls' = <<>>
              /\ UNCHANGED transport
              /\ ~panicked')]_vars

\* an unrecognized control-out request was rejected while a frame was half
\* sent, another was queued and an interface was in FD mode
C13_Witness ==
    /\ lastOp.op = "control_out"
    /\ lastOp.rt = "Vendor"
    /\ lastOp.request \notin KnownOutRequests
    /\ xfer = "rejected"
    /\ out_frame # <<>>
    /\ out_queue # <<>>
    /\ \E i \in 0..(MAX_INTF - 1) : interface_fd[i]

----------------------------------------------------------------------------
(* C14 *)

\* CAN identifiers recur: the frames given to transmit (line 81) and sent by
\* the host (line 246) carry whatever can_id their sender chose.  Once the
\* newest frame has left the class, fully written or dropped on overflow, its
\* identifier is free for the next frame and what was observed of it is
\* forgotten.  The class's own state is not touched.
Forget ==
    LET id == nextId - 1
        Other(x) == x # id
        OtherWrite(w) == w.id # id
    IN  /\ ~panicked
        /\ nextId > 1
        /\ Writes(id, 2) # {} \/ id \in dropped
        /\ Places(id) = 0
        /\ nextId' = id
        /\ hostLog' = SelectSeq(hostLog, OtherWrite)
        /\ submitted' = SelectSeq(submitted, Other)
        /\ received' = SelectSeq(received, Other)
        /\ dropped' = dropped \ {id}
        /\ lastOp' = [op |-> "forget"]
        /\ xfer' = "none"
        /\ devCalls' = <<>>
        /\ UNCHANGED <<interface_fd, out_queue, out_frame, in_frame, panicked,
                       wasReset>>

\* the handlers of Next with no bound on the number of frames over time
LiveNext ==
    \/ Next
    \/ Forget

\* usb-device calls poll from every UsbDevice::poll and endpoint_in_complete
\* after every completed IN transfer (lines 215-233); the fairness condition
\* is the claim's hypothesis that the drain hook keeps being invoked with the
\* IN endpoint accepting the write
LiveSpec ==
    /\ Init
    /\ [][LiveNext]_vars
    /\ WF_vars(Poll(TRUE) \/ EndpointInComplete(TRUE))

\* C14: while there is no protocol reset and the drain hook keeps running
\* with the IN endpoint accepting writes, every frame that is in the queue or
\* in the half-sent slot is eventually fully written: its trailing bytes,
\* and so its first 64 bytes before them, reach the host.
C14_QueuedEventuallyWritten ==
    \A id \in 1..MaxFrames :
        (Places(id) > 0) ~> (Writes(id, 2) # {} \/ wasReset \/ panicked)

----------------------------------------------------------------------------
(* C15 *)

\* the largest length and the largest DLC given to the codec
CodecMaxLen == 65
CodecMaxDlc == 16

\* the codec is called on a length and on a DLC drawn at the start; the class
\* is as new() left it
CodecInit ==
    /\ interface_fd = [i \in 0..(MAX_INTF - 1) |-> FALSE]
    /\ out_queue = <<>>
    /\ out_frame = <<>>
    /\ in_frame = <<>>
    /\ panicked = FALSE
    /\ hostLog = <<>>
    /\ received = <<>>
    /\ submitted = <<>>
    /\ dropped = {}
    /\ nextId = 1
    /\ wasReset = FALSE
    /\ xfer = "none"
    /\ devCalls = <<>>
    /\ \E len \in 0..CodecMaxLen, dlc \in 0..CodecMaxDlc :
          lastOp = [op |-> "input", len |-> len, dlc |-> dlc]

\* fd_dlc_to_len(fd_len_to_dlc(len)?): out is the DLC, back the length
\* decoded from it; the panic! of fd_len_to_dlc ends the run
LenToDlc ==
    LET dlc == fd_len_to_dlc(lastOp.len) IN
    /\ ~panicked
    /\ lastOp.op = "input"
    /\ IF dlc = "panic"
       THEN /\ Panic
            /\ lastOp' = [op |-> "fd_len_to_dlc", len |-> lastOp.len,
                          dlc |-> lastOp.dlc, out |-> <<>>, back |-> <<>>]
       ELSE /\ UNCHANGED panicked
            /\ lastOp' = [op |-> "fd_len_to_dlc", len |-> lastOp.len,
                          dlc |-> lastOp.dlc, out |-> dlc,
                          back |-> fd_dlc_to_len(dlc[1])]
    /\ UNCHANGED <<interface_fd, out_queue, out_frame, in_frame, hostLog,
                   received, submitted, dropped, nextId, wasReset, xfer,
                   devCalls>>

\* fd_len_to_dlc(fd_dlc_to_len(dlc)?): out is the length, back the DLC
\* encoded from it; None is passed on
DlcToLen ==
    LET len == fd_dlc_to_len(lastOp.dlc) IN
    /\ ~panicked
    /\ lastOp.op = "input"
    /\ IF len = <<>>
       THEN /\ UNCHANGED panicked
            /\ lastOp' = [op |-> "fd_dlc_to_len", len |-> lastOp.len,
                          dlc |-> lastOp.dlc, out |-> <<>>, back |-> <<>>]
       ELSE IF fd_len_to_dlc(len[1]) = "panic"
       THEN /\ Panic
            /\ lastOp' = [op |-> "fd_dlc_to_len", len |-> lastOp.len,
                          dlc |-> lastOp.dlc, out |-> len, back |-> <<>>]
       ELSE /\ UNCHANGED panicked
            /\ lastOp' = [op |-> "fd_dlc_to_len", len |-> lastOp.len,
                          dlc |-> lastOp.dlc, out |-> len,
                          back |-> fd_len_to_dlc(len[1])]
    /\ UNCHANGED <<interface_fd, out_queue, out_frame, in_frame, hostLog,
                   received, submitted, dropped, nextId, wasReset, xfer,
                   devCalls>>

CodecNext ==
    \/ LenToDlc
    \/ DlcToLen

CodecSpec == CodecInit /\ [][CodecNext]_vars

\* the payload lengths CAN FD can carry
FdLengths == (0..8) \cup {12, 16, 20, 24, 32, 48, 64}

\* the length the CAN FD standard gives each DLC above 8
FdLength(dlc) ==
    CASE dlc = 9 -> 12
      [] dlc = 10 -> 16
      [] dlc = 11 -> 20
      [] dlc = 12 -> 24
      [] dlc = 13 -> 32
      [] dlc = 14 -> 48
      [] dlc = 15 -> 64
      [] OTHER -> dlc

\* C15: the DLC codec round-trips.  Encoding a length of 0..8, 12, 16, 20,
\* 24, 32, 48 or 64 and decoding the result gives the length back; decoding a
\* DLC of 0..15 gives the standard's length (9 -> 12, 10 -> 16, 11 -> 20,
\* 12 -> 24, 13 -> 32, 14 -> 48, 15 -> 64, the DLC itself up to 8) and
\* encoding that length gives the DLC back.
C15_DlcRoundTrip ==
    /\ (lastOp.op = "fd_len_to_dlc" /\ lastOp.len \in FdLengths)
       => (/\ ~panicked
           /\ Len(lastOp.out) = 1
           /\ lastOp.out[1] \in 0..15
           /\ lastOp.back = <<lastOp.len>>)
    /\ (lastOp.op = "fd_dlc_to_len" /\ lastOp.dlc \in 0..15)
       => (/\ ~panicked
           /\ lastOp.out = <<FdLength(lastOp.dlc)>>
           /\ lastOp.back = <<lastOp.dlc>>)

\* DLC 13 was decoded to 32 bytes and 32 bytes encoded back to DLC 13
C15_Witness ==
    /\ lastOp.op = "fd_dlc_to_len"
    /\ lastOp.dlc = 13
    /\ lastOp.out = <<32>>
    /\ lastOp.back = <<13>>

----------------------------------------------------------------------------
(* C16 *)

\* C16: a frame without the FD flag is fully sent once its first 64 bytes
\* are written, on the immediate path and on the drain path alike: only a
\* frame with the FD flag is ever the half-sent frame, and a write of the
\* first 64 bytes of a frame without it leaves the half-sent slot empty.
C16_OnlyFdFramesHalfSent ==
    [][/\ (out_frame' # <<>>) => out_frame'[1].fd
       /\ \A f \in {out_queue[k] : k \in 1..Len(out_queue)} :
             (/\ ~f.fd
              /\ hostLog' = Append(hostLog, [id |-> f.can_id, half |-> 1]))
             => out_frame' = <<>>]_vars

----------------------------------------------------------------------------
(* C17 *)

\* the frames that wait in the queue or in the half-sent slot
PipelineFrames ==
    {out_queue[k] : k \in 1..Len(out_queue)}
        \cup {out_frame[k] : k \in 1..Len(out_frame)}

\* the frame came from the host: it was handed to Device::receive
FromHost(id) == id \in {received[k] : k \in 1..Len(received)}

\* C17: echo_id tells a frame's origin.  Every frame handed to
\* Device::receive, and every echo of it in the queue or the half-sent slot,
\* has echo_id 0 whatever the host sent; every frame made by transmit() has
\* echo_id 0xFFFFFFFF and the interface and FD flag of the call's arguments;
\* a frame that waits in the queue or the slot is not altered.
C17_EchoIdTellsOrigin ==
    [][/\ \A k \in 1..Len(devCalls') :
             devCalls'[k].op = "receive"
             => devCalls'[k].frame.echo_id = U32(0, 0)
       /\ \A f \in PipelineFrames' :
             f.echo_id = IF FromHost(f.can_id)' THEN U32(0, 0) ELSE U32_MAX
       /\ lastOp'.op = "transmit"
          => \A f \in PipelineFrames' :
                f.can_id = nextId
                => (/\ f.echo_id = U32_MAX
                    /\ f.interface = lastOp'.interface % 256
                    /\ f.fd = lastOp'.fd)
       /\ \A f \in PipelineFrames', g \in PipelineFrames :
             f.can_id = g.can_id => f = g]_vars

\* an echo waits in the queue behind a half-sent frame made by transmit for
\* interface 1 with the FD flag
C17_Witness ==
    /\ out_frame # <<>>
    /\ out_frame[1].echo_id = U32_MAX
    /\ out_frame[1].interface = 1
    /\ out_frame[1].fd
    /\ out_queue # <<>>
    /\ FromHost(out_queue[1].can_id)
    /\ out_queue[1].echo_id = U32(0, 0)
    /\ lastOp.op = "endpoint_out"

----------------------------------------------------------------------------
(* C18 *)

\* the step is a call of the drain hook
DrainStep == lastOp'.op \in {"poll", "endpoint_in_complete"}

\* C18: a drain step whose write is refused changes nothing: the half-sent
\* frame stays half-sent, or the head of the queue stays at the front with
\* the slot empty; a drain step that finds the queue and the slot empty
\* writes nothing.
C18_FailedDrainChangesNothing ==
    [][/\ (DrainStep /\ ~lastOp'.ok)
          => (/\ UNCHANGED transport
              /\ hostLog' = hostLog
              /\ ~panicked')
       /\ (DrainStep /\ out_queue = <<>> /\ out_frame = <<>>)
          => (/\ hostLog' = hostLog
              /\ UNCHANGED transport)]_vars

\* the write of the trailing bytes was refused while another frame waited
C18_Witness ==
    /\ lastOp.op \in {"poll", "endpoint_in_complete"}
    /\ ~lastOp.ok
    /\ out_frame # <<>>
    /\ out_queue # <<>>
    /\ Writes(out_frame[1].can_id, 1) # {}
    /\ Writes(out_frame[1].can_id, 2) = {}

----------------------------------------------------------------------------
(* C19 *)

\* C19: an interface index of 3 or more, whether it comes from the value of
\* SET_MODE or from the interface byte of a bulk OUT frame, is rejected and
\* never used as an index into interface_fd: the handler returns, the
\* control transfer is rejected, the transport state is unchanged and the
\* class keeps running.
C19_InterfaceIndexChecked ==
    [][/\ (VendorOutStep(REQ_MODE) /\ lastOp'.value % 256 >= MAX_INTF)
          => (/\ ~panicked'
              /\ xfer' = "rejected"
              /\ devCalls' = <<>>
              /\ UNCHANGED transport)
       /\ (OutPacketStep /\ in_frame = <<>> /\ lastOp'.interface >= MAX_INTF)
          => (/\ ~panicked'
              /\ devCalls' = <<>>
              /\ UNCHANGED transport)]_vars

----------------------------------------------------------------------------
(* C20 *)

\* C20: a payload length that has no DLC, given to transmit(), is rejected
\* recoverably: no frame is queued or written, the transport state is
\* unchanged and the class is not aborted.
C20_BadLengthRejected ==
    [][(lastOp'.op = "transmit" /\ lastOp'.len \notin FdLengths)
          => (/\ ~panicked'
              /\ hostLog' = hostLog
              /\ submitted' = submitted
              /\ UNCHANGED transport)]_vars

----------------------------------------------------------------------------
(* C21 *)

\* the IN endpoint has refused every write since new(): every frame
\* submitted so far went to the enqueue call
AllRefused == hostLog = <<>> /\ ~wasReset

\* the can_ids of the queued frames, front first
QueuedIds == [k \in 1..Len(out_queue) |-> out_queue[k].can_id]

----------------------------------------------------------------------------
(* C22 *)

\* C22: the transmit side leaves the receive side alone.  transmit(), poll
\* and endpoint_in_complete never change interface_fd or in_frame and never
\* call the device; interface_fd changes only in a SET_MODE request or a
\* protocol reset; in_frame changes only in an endpoint_out call for the bulk
\* OUT endpoint or a protocol reset, and an endpoint_out call for another
\* endpoint changes nothing.
C22_TransmitSideFrame ==
    [][/\ lastOp'.op \in {"transmit", "poll", "endpoint_in_complete"}
          => (/\ UNCHANGED <<interface_fd, in_frame>>
              /\ devCalls' = <<>>)
       /\ interface_fd' # interface_fd
          => (VendorOutStep(REQ_MODE) \/ lastOp'.op = "reset")
       /\ in_frame' # in_frame
          => (OutPacketStep \/ lastOp'.op = "reset")
       /\ (lastOp'.op = "endpoint_out" /\ lastOp'.addr # READ_EP_INDEX)
          => (/\ UNCHANGED transport
              /\ hostLog' = hostLog
              /\ received' = received
              /\ devCalls' = <<>>
              /\ ~panicked')]_vars

\* an endpoint_out call for another endpoint came while a first packet was
\* stored, an interface was in FD mode and a frame waited in the queue
C22_Witness ==
    /\ lastOp.op = "endpoint_out"
    /\ lastOp.addr # READ_EP_INDEX
    /\ in_frame # <<>>
    /\ out_queue # <<>>
    /\ \E i \in 0..(MAX_INTF - 1) : interface_fd[i]
    /\ ~panicked

----------------------------------------------------------------------------
(* C23 *)

\* the last handler was a SET_MODE request, Reset or Start, for an interface
\* of the array, and it left a first packet stored
ModeChangedMidFrame ==
    /\ lastOp.op = "control_out"
    /\ lastOp.rt = "Vendor"
    /\ lastOp.request = REQ_MODE
    /\ lastOp.data.len = 8
    /\ lastOp.data.w0 \in {MODE_RESET, MODE_START}
    /\ lastOp.value % 256 < MAX_INTF
    /\ in_frame # <<>>

\* C23: a mode change between the two packets of an FD frame does not
\* disturb assembly.  With a first packet stored, a SET_MODE request (Reset
\* or Start, any interface, with or without the FD bit) leaves in_frame as
\* it is, and the next bulk OUT packet is always taken as the second half of
\* the stored frame: the slot is emptied and the frame is delivered once to
\* the interface recorded in it, whatever the FD flags are by then.
C23_ModeChangeKeepsAssembly ==
    [][/\ (/\ SetModeStep
           /\ lastOp'.data.w0 \in {MODE_RESET, MODE_START}
           /\ in_frame # <<>>)
          => (in_frame' = in_frame /\ ~panicked')
       /\ (ModeChangedMidFrame /\ OutPacketStep)
          => (/\ ~panicked'
              /\ in_frame' = <<>>
              /\ DeliversOnce(in_frame[1].can_id, in_frame[1].interface))]_vars

====
